---- MODULE Spec2Model ----
(***************************************************************************)
(* Model of the straight-line script OnlineGlobalRetail.py (OnlineRetail.py *)
(* is the same pipeline with plot files saved): Step 3 data cleaning, Step  *)
(* 4 feature engineering and Step 10 RFM customer segmentation.             *)
(*                                                                          *)
(* Money is counted in whole pence and time in whole ticks, so every sum,   *)
(* product and quantile below is exact integer arithmetic; pandas' quantile *)
(* edges are kept multiplied by Q - the number of bins - for the same       *)
(* reason. A table (DataFrame) is a sequence of records, one per row, in    *)
(* row order.                                                               *)
(***************************************************************************)
EXTENDS Integers, Sequences, FiniteSets, TLC

\* file: the rows of the CSV file, which the script only reads
VARIABLES file, pc, df, latest_date, rfm, best_customers, error

vars == <<file, pc, df, latest_date, rfm, best_customers, error>>

-----------------------------------------------------------------------------
(* Bounds of the model *)

\* rows of a freely chosen input table
MaxRows == 3
\* customers of a generated input table
MaxCustomers == 11
\* longest run of customers sharing one value in a generated table
MaxTie == 2
\* resolution of a timestamp: ticks in one day
TicksPerDay == 2

(* Program constants *)

\* the number of quantile bins passed to pd.qcut
Q == 10
\* the missing-value marker read_csv leaves in an empty numeric cell
NaN == 0
\* the missing-value marker of an empty text cell
NaNStr == ""

-----------------------------------------------------------------------------
(* Helpers on sequences *)

Range(s) == {s[i] : i \in 1..Len(s)}

RECURSIVE SumSeq(_)
SumSeq(s) == IF s = <<>> THEN 0 ELSE s[1] + SumSeq(Tail(s))

\* the column of a table named by a field
Column(t, f) == [i \in 1..Len(t) |-> t[i][f]]

MaxOf(S) == CHOOSE x \in S : \A y \in S : y <= x

MinOf(S) == CHOOSE x \in S : \A y \in S : x <= y

RECURSIVE SortedSeq(_)
SortedSeq(S) == IF S = {} THEN <<>> ELSE <<MinOf(S)>> \o SortedSeq(S \ {MinOf(S)})

-----------------------------------------------------------------------------
(* Step 3: data cleaning *)

\* df.drop_duplicates(): keep the first occurrence of every row, in row order
RECURSIVE drop_duplicates(_)
drop_duplicates(t) ==
    IF t = <<>> THEN <<>>
    ELSE LET n == Len(t)
             head == drop_duplicates(SubSeq(t, 1, n - 1))
         IN IF \E i \in 1..(n - 1) : t[i] = t[n] THEN head ELSE Append(head, t[n])

\* df.dropna(subset=['CustomerID', 'Description'])
dropna(t) == SelectSeq(t, LAMBDA r : r.CustomerID # NaN /\ r.Description # NaNStr)

\* the filter with the Quantity test left out
PositivePriceRows(t) == SelectSeq(t, LAMBDA r : r.UnitPrice > 0)

\* df[(df['UnitPrice'] > 0) & (df['Quantity'] > 0)]
PositiveRows(t) == SelectSeq(t, LAMBDA r : r.UnitPrice > 0 /\ r.Quantity > 0)

-----------------------------------------------------------------------------
(* Step 4: feature engineering *)

\* pd.to_datetime on one cell: a <<day, tick>> text becomes a point in time
to_datetime(d) == d[1] * TicksPerDay + d[2]

\* df["TotalPrice"] = Quantity * UnitPrice; df['InvoiceDate'] = to_datetime
Engineer(r) ==
    [InvoiceNo |-> r.InvoiceNo, CustomerID |-> r.CustomerID,
     Description |-> r.Description, Quantity |-> r.Quantity,
     UnitPrice |-> r.UnitPrice, Country |-> r.Country,
     InvoiceDate |-> to_datetime(r.InvoiceDate),
     TotalPrice |-> r.Quantity * r.UnitPrice]

-----------------------------------------------------------------------------
(* Step 10: customer segmentation using RFM *)

\* df['InvoiceDate'].max() + pd.Timedelta(days=1); the maximum of an empty
\* column is the missing value, and so is the sum
LatestDate(t) ==
    IF t = <<>> THEN NaN
    ELSE MaxOf(Range(Column(t, "InvoiceDate"))) + TicksPerDay

\* the group keys of df.groupby('CustomerID'), which sorts them ascending
GroupKeys(t) == SortedSeq(Range(Column(t, "CustomerID")))

RowsOf(t, c) == SelectSeq(t, LAMBDA r : r.CustomerID = c)

\* a Recency counted from the customer's first purchase
RecencyFromFirst(t, latest, c) ==
    (latest - MinOf(Range(Column(RowsOf(t, c), "InvoiceDate"))))
        \div TicksPerDay

\* (latest_date - groupby('CustomerID')['InvoiceDate'].max()).dt.days
RecencyOf(t, latest, c) ==
    (latest - MaxOf(Range(Column(RowsOf(t, c), "InvoiceDate"))))
        \div TicksPerDay

recency_df(t, latest) ==
    LET keys == GroupKeys(t)
    IN [i \in 1..Len(keys) |->
            [CustomerID |-> keys[i], Recency |-> RecencyOf(t, latest, keys[i])]]

\* groupby('CustomerID')['InvoiceNo'].nunique()
FrequencyOf(t, c) ==
    Cardinality(Range(Column(RowsOf(t, c), "InvoiceNo")))

frequency_df(t) ==
    LET keys == GroupKeys(t)
    IN [i \in 1..Len(keys) |->
            [CustomerID |-> keys[i], Frequency |-> FrequencyOf(t, keys[i])]]

\* groupby('CustomerID')['TotalPrice'].sum()
MonetaryOf(t, c) == SumSeq(Column(RowsOf(t, c), "TotalPrice"))

monetary_df(t) ==
    LET keys == GroupKeys(t)
    IN [i \in 1..Len(keys) |->
            [CustomerID |-> keys[i], Monetary |-> MonetaryOf(t, keys[i])]]

\* a merge that pairs every left row with every right row
RECURSIVE merge_cross(_, _)
merge_cross(left, right) ==
    IF left = <<>> THEN <<>>
    ELSE [j \in 1..Len(right) |-> left[1] @@ right[j]]
            \o merge_cross(Tail(left), right)

\* left.merge(right, on='CustomerID'): the inner join, in the left table's
\* row order, one output row per matching pair
RECURSIVE merge(_, _)
merge(left, right) ==
    IF left = <<>> THEN <<>>
    ELSE LET l == left[1]
             hits == SelectSeq(right, LAMBDA r : r.CustomerID = l.CustomerID)
         IN [j \in 1..Len(hits) |-> l @@ hits[j]] \o merge(Tail(left), right)

BuildRfm(t, latest) ==
    merge(merge(recency_df(t, latest), frequency_df(t)), monetary_df(t))

-----------------------------------------------------------------------------
(* pd.qcut(x, Q, labels): quantile edges by linear interpolation, then bins *)

Ascending(x) == SortSeq(x, LAMBDA a, b : a < b)

\* Q times each of the Q+1 quantile edges of x (x.quantile(k / Q), k in
\* 0..Q): the value at position k * (n - 1) / Q of the sorted column,
\* interpolated linearly between its two neighbours
Edges(x) ==
    LET s == Ascending(x)
    IN [k \in 0..Q |->
            LET pos == k * (Len(x) - 1)
                lo == (pos \div Q) + 1
                frac == pos % Q
            IN IF frac = 0 THEN Q * s[lo]
               ELSE Q * s[lo] + frac * (s[lo + 1] - s[lo])]

\* qcut raises ValueError ("Bin edges must be unique") when two edges are
\* equal (duplicates='raise'); an empty column has no edges at all
QcutRaises(x) ==
    \/ x = <<>>
    \/ LET e == Edges(x) IN \E k \in 1..Q : e[k - 1] = e[k]

\* the bin of one value: searchsorted(edges, v, side='left'), and the
\* minimum goes to the first bin (include_lowest)
BinOf(e, v) ==
    IF Q * v = e[0] THEN 1
    ELSE Cardinality({k \in 0..Q : e[k] < Q * v})

\* labels that count up where they should count down
LabelNotReversed == [b \in 1..Q |-> b]

\* the labels of range(1, Q + 1) and of range(Q, 0, -1)
LabelUp == [b \in 1..Q |-> b]

LabelDown == [b \in 1..Q |-> Q + 1 - b]

qcut(x, labels) ==
    LET e == Edges(x) IN [i \in 1..Len(x) |-> labels[BinOf(e, x[i])]]

\* rank(method='min'): equal values share the lowest rank of their group
rank_min(x) ==
    [i \in 1..Len(x) |-> 1 + Cardinality({j \in 1..Len(x) : x[j] < x[i]})]

\* Series.rank(method='first'): ascending rank, equal values ranked in the
\* order they appear in the column
rank_first(x) ==
    [i \in 1..Len(x) |->
        1 + Cardinality({j \in 1..Len(x) : x[j] < x[i]})
          + Cardinality({j \in 1..(i - 1) : x[j] = x[i]})]

\* the score columns of lines 158-160
RScores(t) == qcut(Column(t, "Recency"), LabelDown)

FScores(t) == qcut(rank_first(Column(t, "Frequency")), LabelUp)

MScores(t) == qcut(Column(t, "Monetary"), LabelUp)

\* astype(str) of a positive integer: its decimal digits
RECURSIVE Str(_)
Str(n) ==
    LET d == <<"0", "1", "2", "3", "4", "5", "6", "7", "8", "9">>
    IN IF n < 10 THEN <<d[n + 1]>> ELSE Str(n \div 10) \o <<d[(n % 10) + 1]>>

\* a code that repeats F_Score in the place of M_Score
RFM_ScoreWithoutM(r) == Str(r.R_Score) \o Str(r.F_Score) \o Str(r.F_Score)

\* R_Score.astype(str) + F_Score.astype(str) + M_Score.astype(str)
RFM_Score(r) == Str(r.R_Score) \o Str(r.F_Score) \o Str(r.M_Score)

\* the literal '101010' of the best-customer filter
BestCode == <<"1", "0", "1", "0", "1", "0">>

\* rfm[rfm['RFM_Score'] == '101010']
BestRows(t) == SelectSeq(t, LAMBDA r : r.RFM_Score = BestCode)

-----------------------------------------------------------------------------
(* The input tables *)

\* an invoice belongs to one customer and carries one timestamp, written
\* <<day, tick>> in the file
Invoices ==
    { [InvoiceNo |-> 1, CustomerID |-> 1, InvoiceDate |-> <<1, 1>>],
      [InvoiceNo |-> 2, CustomerID |-> 1, InvoiceDate |-> <<2, 0>>],
      [InvoiceNo |-> 3, CustomerID |-> 2, InvoiceDate |-> <<1, 0>>],
      [InvoiceNo |-> 4, CustomerID |-> 2, InvoiceDate |-> <<2, 1>>] }

Line(inv, cust, desc, qty, price) ==
    [InvoiceNo |-> inv.InvoiceNo, CustomerID |-> cust, Description |-> desc,
     Quantity |-> qty, UnitPrice |-> price, InvoiceDate |-> inv.InvoiceDate,
     Country |-> "UK"]

ValidLines == {Line(inv, inv.CustomerID, "mug", q, 3) : inv \in Invoices, q \in {1, 2}}

\* rows the cleaning is written to drop: a missing customer, a missing
\* description, a returned or zero quantity, a zero or negative price
DirtyLines ==
    LET inv == CHOOSE i \in Invoices : i.InvoiceNo = 1
    IN { Line(inv, NaN, "mug", 1, 3), Line(inv, 1, NaNStr, 1, 3),
         Line(inv, 1, "mug", 0, 3), Line(inv, 1, "mug", -1, 3),
         Line(inv, 1, "mug", 1, 0), Line(inv, 1, "mug", 2, -3) }

RawLines == ValidLines \cup DirtyLines

\* every table of at most MaxRows rows
RawTables == UNION {[1..n -> RawLines] : n \in 0..MaxRows}

\* A generated table of n customers 1..n. Customer c's last purchase day and
\* total spend both grow with c, except that the customers of the run
\* i..i+len-1 share the day (tieR) or the spend (tieM) of customer i; desc
\* reverses the days. The customers of twice have a second, earlier invoice,
\* on day 1 (late on day 0 for those whose last purchase is on day 1).
InRun(c, i, len) == i <= c /\ c < i + len

Level(c, i, len, tied) == IF tied /\ InRun(c, i, len) THEN i ELSE c

CustomerLines(n, c, i, len, tieR, tieM, desc, twice) ==
    LET lvl == Level(c, i, len, tieR)
        day == IF desc THEN n + 1 - lvl ELSE lvl
        spend == 2 * Level(c, i, len, tieM)
        last == [InvoiceNo |-> 2 * c, InvoiceDate |-> <<day, 0>>]
        first == [InvoiceNo |-> 2 * c - 1,
                  InvoiceDate |-> IF day > 1 THEN <<1, 0>> ELSE <<0, 1>>]
    IN IF c \in twice
       THEN <<Line(last, c, "mug", spend - 1, 1), Line(first, c, "mug", 1, 1)>>
       ELSE <<Line(last, c, "mug", spend, 1)>>

\* the customers' rows, last customer first
RECURSIVE GeneratedTable(_, _, _, _, _, _, _, _)
GeneratedTable(n, c, i, len, tieR, tieM, desc, twice) ==
    IF c = 0 THEN <<>>
    ELSE CustomerLines(n, c, i, len, tieR, tieM, desc, twice)
            \o GeneratedTable(n, c - 1, i, len, tieR, tieM, desc, twice)

\* who buys twice: nobody, the last customer, the first, the odd ones
TwiceChoices(n) == {{}, {n} \cap (1..n), {1} \cap (1..n), {c \in 1..n : c % 2 = 1}}

TablesOf(n) ==
    {GeneratedTable(n, n, i, len, tieR, tieM, desc, twice) :
        i \in 1..n, len \in (1..MaxTie) \cup {n},
        tieR \in BOOLEAN, tieM \in BOOLEAN, desc \in BOOLEAN,
        twice \in TwiceChoices(n)}

GeneratedTables == UNION {TablesOf(n) : n \in 1..MaxCustomers}

-----------------------------------------------------------------------------
(* The script, statement by statement *)

\* line 16: df = pd.read_csv(file)
Init ==
    /\ file \in RawTables \cup GeneratedTables
    /\ pc = "loaded"
    /\ df = file
    /\ latest_date = NaN
    /\ rfm = <<>>
    /\ best_customers = <<>>
    /\ error = ""

\* line 33
DropDuplicates ==
    /\ pc = "loaded"
    /\ df' = drop_duplicates(df)
    /\ pc' = "deduplicated"
    /\ UNCHANGED <<file, latest_date, rfm, best_customers, error>>

\* line 36
DropNa ==
    /\ pc = "deduplicated"
    /\ df' = dropna(df)
    /\ pc' = "complete"
    /\ UNCHANGED <<file, latest_date, rfm, best_customers, error>>

\* line 39
FilterPositive ==
    /\ pc = "complete"
    /\ df' = PositiveRows(df)
    /\ pc' = "positive"
    /\ UNCHANGED <<file, latest_date, rfm, best_customers, error>>

\* lines 45-48
FeatureEngineering ==
    /\ pc = "positive"
    /\ df' = [i \in 1..Len(df) |-> Engineer(df[i])]
    /\ pc' = "clean"
    /\ UNCHANGED <<file, latest_date, rfm, best_customers, error>>

\* lines 139-155
Aggregate ==
    /\ pc = "clean"
    /\ latest_date' = LatestDate(df)
    /\ rfm' = BuildRfm(df, LatestDate(df))
    /\ pc' = "aggregated"
    /\ UNCHANGED <<file, df, best_customers, error>>

\* one of lines 158-160: the column is assigned, or qcut raises and the
\* script ends there
Score(from, to, col, scores) ==
    /\ pc = from
    /\ IF QcutRaises(col)
       THEN /\ pc' = "failed"
            /\ error' = "ValueError"
            /\ rfm' = rfm
       ELSE /\ pc' = to
            /\ error' = error
            /\ rfm' = scores
    /\ UNCHANGED <<file, df, latest_date, best_customers>>

\* line 158
ScoreR ==
    Score("aggregated", "r_scored", Column(rfm, "Recency"),
          [i \in 1..Len(rfm) |-> rfm[i] @@ [R_Score |-> RScores(rfm)[i]]])

\* line 159
ScoreF ==
    Score("r_scored", "f_scored",
          rank_first(Column(rfm, "Frequency")),
          [i \in 1..Len(rfm) |-> rfm[i] @@ [F_Score |-> FScores(rfm)[i]]])

\* line 160
ScoreM ==
    Score("f_scored", "m_scored", Column(rfm, "Monetary"),
          [i \in 1..Len(rfm) |-> rfm[i] @@ [M_Score |-> MScores(rfm)[i]]])

\* lines 163-167
Concatenate ==
    /\ pc = "m_scored"
    /\ rfm' = [i \in 1..Len(rfm) |-> rfm[i] @@ [RFM_Score |-> RFM_Score(rfm[i])]]
    /\ pc' = "coded"
    /\ UNCHANGED <<file, df, latest_date, best_customers, error>>

\* line 170
SelectBest ==
    /\ pc = "coded"
    /\ best_customers' = BestRows(rfm)
    /\ pc' = "done"
    /\ UNCHANGED <<file, df, latest_date, rfm, error>>

Next ==
    \/ DropDuplicates
    \/ DropNa
    \/ FilterPositive
    \/ FeatureEngineering
    \/ Aggregate
    \/ ScoreR
    \/ ScoreF
    \/ ScoreM
    \/ Concatenate
    \/ SelectBest

Spec == Init /\ [][Next]_vars

-----------------------------------------------------------------------------
(* Properties *)

Cleaned == {"clean", "aggregated", "r_scored", "f_scored", "m_scored",
            "coded", "done", "failed"}

Aggregated == Cleaned \ {"clean"}

Customers(t) == {t[i].CustomerID : i \in 1..Len(t)}

HasColumn(t, f) == t # <<>> /\ f \in DOMAIN t[1]

\* C1: after cleaning and feature engineering every record of df has a
\* positive Quantity, a positive UnitPrice, a CustomerID and a Description,
\* and its TotalPrice is Quantity x UnitPrice.
C1_CleanRecords ==
    pc \in Cleaned =>
        \A i \in 1..Len(df) :
            /\ df[i].Quantity > 0
            /\ df[i].UnitPrice > 0
            /\ df[i].CustomerID # NaN
            /\ df[i].Description # NaNStr
            /\ df[i].TotalPrice = df[i].Quantity * df[i].UnitPrice

\* a file with a returned item and a row without customer, cleaned to a
\* shorter, non-empty table
C1_Witness ==
    /\ pc = "clean"
    /\ df # <<>>
    /\ Len(df) < Len(file)
    /\ \E i \in 1..Len(file) : file[i].Quantity <= 0
    /\ \E i \in 1..Len(file) : file[i].CustomerID = NaN

\* C2: the Monetary column of rfm sums to the TotalPrice column of the
\* cleaned records, and rfm has exactly one row per customer of the cleaned
\* records.
C2_Conservation ==
    pc \in Aggregated =>
        /\ SumSeq(Column(rfm, "Monetary"))
              = SumSeq(Column(df, "TotalPrice"))
        /\ Customers(rfm) = Customers(df)
        /\ Len(rfm) = Cardinality(Customers(df))

\* several customers, one of them with more than one record
C2_Witness ==
    /\ pc = "aggregated"
    /\ Len(rfm) >= 2
    /\ Len(df) > Len(rfm)

StampsOf(c) == {df[i].InvoiceDate : i \in {j \in 1..Len(df) : df[j].CustomerID = c}}

InvoicesOf(c) == {df[i].InvoiceNo : i \in {j \in 1..Len(df) : df[j].CustomerID = c}}

\* C3: the reference date is one day after the latest InvoiceDate of the
\* cleaned records; every customer's Recency is the number of whole days from
\* the customer's latest InvoiceDate to the reference date, so never
\* negative, and Frequency is the number of the customer's distinct
\* InvoiceNo; a customer with invoices on day 1 and day 10 under reference
\* day 11 has Frequency 2 and Recency 1.
C3_RecencyFrequency ==
    pc \in Aggregated =>
        /\ \A i \in 1..Len(df) : df[i].InvoiceDate + TicksPerDay <= latest_date
        /\ df # <<>> =>
              \E i \in 1..Len(df) : df[i].InvoiceDate + TicksPerDay = latest_date
        /\ \A k \in 1..Len(rfm) :
              LET row == rfm[k]
                  stamps == StampsOf(row.CustomerID)
              IN /\ \E last \in stamps :
                        /\ \A t \in stamps : t <= last
                        /\ row.Recency * TicksPerDay <= latest_date - last
                        /\ latest_date - last < (row.Recency + 1) * TicksPerDay
                 /\ row.Recency >= 0
                 /\ row.Frequency = Cardinality(InvoicesOf(row.CustomerID))
                 /\ (/\ stamps = {to_datetime(<<1, 0>>), to_datetime(<<10, 0>>)}
                     /\ latest_date = to_datetime(<<11, 0>>))
                        => row.Frequency = 2 /\ row.Recency = 1

\* the customer of the example: invoices on day 1 and day 10, reference
\* date day 11
C3_Witness ==
    /\ pc = "aggregated"
    /\ latest_date = to_datetime(<<11, 0>>)
    /\ \E k \in 1..Len(rfm) :
          StampsOf(rfm[k].CustomerID) = {to_datetime(<<1, 0>>), to_datetime(<<10, 0>>)}

\* a Recency that rounds a part of a day down
C3_WitnessWholeDays ==
    /\ pc = "aggregated"
    /\ \E k \in 1..Len(rfm) :
          \E last \in StampsOf(rfm[k].CustomerID) :
              /\ \A t \in StampsOf(rfm[k].CustomerID) : t <= last
              /\ rfm[k].Recency * TicksPerDay < latest_date - last

Population(col, s) == Cardinality({i \in 1..Len(col) : col[i] = s})

\* every score taken when the population is a multiple of Q, and otherwise
\* bin populations within one of each other
Balanced(col) ==
    IF Len(col) % Q = 0
    THEN \A s \in 1..Q : Population(col, s) >= 1
    ELSE \A s, t \in 1..Q : Population(col, s) - Population(col, t) <= 1

\* C4 (as claimed): with at least Q customers the scoring of each metric
\* completes and its bins are balanced, also when Recency or Monetary
\* values repeat.
C4_BalancedDeciles ==
    (pc \in Aggregated /\ Len(rfm) >= Q) =>
        /\ pc # "failed"
        /\ HasColumn(rfm, "R_Score") => Balanced(Column(rfm, "R_Score"))
        /\ HasColumn(rfm, "F_Score") => Balanced(Column(rfm, "F_Score"))
        /\ HasColumn(rfm, "M_Score") => Balanced(Column(rfm, "M_Score"))

\* C5 (as claimed): with fewer than Q customers the RFM step fails with
\* InsufficientDataError and no score is ever assigned.
C5_InsufficientData ==
    (pc \in Aggregated /\ Cardinality(Customers(df)) < Q) =>
        /\ ~HasColumn(rfm, "R_Score")
        /\ pc # "done"
        /\ pc = "failed" => error = "InsufficientDataError"

\* the customer of row k has the only smallest Recency, the only highest
\* Frequency and the only highest Monetary
TopCustomer(k) ==
    \A j \in (1..Len(rfm)) \ {k} :
        /\ rfm[k].Recency < rfm[j].Recency
        /\ rfm[k].Frequency > rfm[j].Frequency
        /\ rfm[k].Monetary > rfm[j].Monetary

\* C6 (as claimed): with at least Q customers, the customer who is alone
\* the most recent, the most frequent and the biggest spender ends with the
\* three scores Q and as a row of best_customers, whatever values the other
\* customers share.
C6_TopCustomerIsBest ==
    (pc \in {"done", "failed"} /\ Len(rfm) >= Q) =>
        \A k \in 1..Len(rfm) :
            TopCustomer(k) =>
                /\ pc = "done"
                /\ rfm[k].R_Score = Q /\ rfm[k].F_Score = Q /\ rfm[k].M_Score = Q
                /\ \E b \in 1..Len(best_customers) :
                      best_customers[b].CustomerID = rfm[k].CustomerID

\* C7 (as claimed): every RFM_Score is six characters long.
C7_FixedWidthCode ==
    pc \in {"coded", "done"} =>
        \A k \in 1..Len(rfm) : Len(rfm[k].RFM_Score) = 6

Rows == 1..Len(rfm)

\* C8: every score lies in 1..Q; a smaller Recency never has a smaller
\* R_Score, a smaller Frequency never a larger F_Score, a smaller Monetary
\* never a larger M_Score; the smallest Recency scores Q and the largest 1,
\* the lowest Monetary scores 1 and the highest Q.
C8_ScoreDirection ==
    /\ HasColumn(rfm, "R_Score") =>
          \A a \in Rows :
              /\ rfm[a].R_Score \in 1..Q
              /\ \A b \in Rows :
                    rfm[a].Recency < rfm[b].Recency => rfm[a].R_Score >= rfm[b].R_Score
              /\ (\A b \in Rows : rfm[a].Recency <= rfm[b].Recency) => rfm[a].R_Score = Q
              /\ (\A b \in Rows : rfm[a].Recency >= rfm[b].Recency) => rfm[a].R_Score = 1
    /\ HasColumn(rfm, "F_Score") =>
          \A a \in Rows :
              /\ rfm[a].F_Score \in 1..Q
              /\ \A b \in Rows :
                    rfm[a].Frequency < rfm[b].Frequency => rfm[a].F_Score <= rfm[b].F_Score
    /\ HasColumn(rfm, "M_Score") =>
          \A a \in Rows :
              /\ rfm[a].M_Score \in 1..Q
              /\ \A b \in Rows :
                    rfm[a].Monetary < rfm[b].Monetary => rfm[a].M_Score <= rfm[b].M_Score
              /\ (\A b \in Rows : rfm[a].Monetary <= rfm[b].Monetary) => rfm[a].M_Score = 1
              /\ (\A b \in Rows : rfm[a].Monetary >= rfm[b].Monetary) => rfm[a].M_Score = Q

\* a fully scored table of at least Q customers, two of them sharing a
\* Recency and two sharing a Monetary value
C8_Witness ==
    /\ pc = "m_scored"
    /\ Len(rfm) >= Q
    /\ \E a, b \in Rows : a # b /\ rfm[a].Recency = rfm[b].Recency
    /\ \E a, b \in Rows : a # b /\ rfm[a].Monetary = rfm[b].Monetary

\* C9: the rows of rfm are in ascending CustomerID order and F_Score is
\* binned from ranks that are pairwise distinct, 1..N; of two customers with
\* the same Frequency the one with the smaller CustomerID never gets the
\* larger F_Score; the F scoring never raises, and repeated Frequency values
\* never empty or overfill a bin.
C9_FrequencyTieBreak ==
    /\ pc \in Aggregated =>
          /\ \A a, b \in Rows : a < b => rfm[a].CustomerID < rfm[b].CustomerID
          /\ Range(rank_first(Column(rfm, "Frequency"))) = Rows
    /\ (pc = "failed" /\ HasColumn(rfm, "R_Score")) => HasColumn(rfm, "F_Score")
    /\ HasColumn(rfm, "F_Score") =>
          /\ \A a, b \in Rows :
                (/\ rfm[a].Frequency = rfm[b].Frequency
                 /\ rfm[a].CustomerID < rfm[b].CustomerID)
                    => rfm[a].F_Score <= rfm[b].F_Score
          /\ \A s, t \in 1..Q :
                Population(Column(rfm, "F_Score"), s)
                    - Population(Column(rfm, "F_Score"), t) <= 1
          /\ Len(rfm) >= Q =>
                \A s \in 1..Q : Population(Column(rfm, "F_Score"), s) >= 1

\* at least Q customers who all have the same Frequency, scored
C9_Witness ==
    /\ pc = "f_scored"
    /\ Len(rfm) >= Q
    /\ \A a, b \in Rows : rfm[a].Frequency = rfm[b].Frequency
    /\ \E a, b \in Rows : rfm[a].F_Score # rfm[b].F_Score

ScoreTriples == [R_Score : 1..Q, F_Score : 1..Q, M_Score : 1..Q]

AllBest(r) == r.R_Score = Q /\ r.F_Score = Q /\ r.M_Score = Q

\* C10: no two different score triples over 1..Q have the same RFM_Score
\* (as many codes as triples), so the rows the filter keeps are exactly the
\* rows whose three scores are all Q.
C10_CodeUnambiguous ==
    /\ pc \in {"coded", "done"} =>
          /\ Cardinality({RFM_Score(t) : t \in ScoreTriples}) = Cardinality(ScoreTriples)
          /\ \A a \in Rows : rfm[a].RFM_Score = BestCode <=> AllBest(rfm[a])
    /\ pc = "done" =>
          /\ \A b \in 1..Len(best_customers) : AllBest(best_customers[b])
          /\ \A a \in Rows :
                AllBest(rfm[a]) =>
                    \E b \in 1..Len(best_customers) : best_customers[b] = rfm[a]

\* a best customer selected from a table that also holds a customer with
\* one score of Q and two lower scores
C10_Witness ==
    /\ pc = "done"
    /\ best_customers # <<>>
    /\ \E a \in Rows : ~AllBest(rfm[a]) /\ rfm[a].R_Score = Q

====
